---------------------------- MODULE Spec2Model ----------------------------
(***************************************************************************)
(* Model of plugins/check_safenet_hsm.py: the Nagios plug-in that drives   *)
(* the SafeNet lunadiag utility through a list of diagnostic commands,     *)
(* classifies each command's output and exits on the first failure.        *)
(*                                                                         *)
(* One run is: module load (options parsed), construction of a CheckHsm    *)
(* object (by main() or by a library caller such as the unit test),        *)
(* verify(), and for main() the final nagios_exit("All OK", NAGIOS_OK).    *)
(* verify()'s loop body is cut at the points where SIGALRM can interrupt   *)
(* it: alarm set, child forked inside Popen, Popen returned, communicate() *)
(* returned, alarm cancelled.                                              *)
(***************************************************************************)
EXTENDS Integers, Sequences, FiniteSets, TLC

(***************************************************************************)
(* Bounds of the model.                                                    *)
(***************************************************************************)
\* longest captured stdout, in lines
MaxLines == 3
\* a command number that is not a key of luna_info
UnknownId == 99

(***************************************************************************)
(* Class constants of CheckHsmBase.                                        *)
(***************************************************************************)
DIAG_TOOL == "/usr/lunapci/bin/lunadiag"
TIME_LIMIT == 3
DISK_LIMIT_WARN == 85
DISK_LIMIT_CRITICAL == 95

NAGIOS_OK == 0
NAGIOS_WARNING == 1
NAGIOS_CRITICAL == 2
NAGIOS_UNKNOWN == 3

VALID_NAGIOS_RETCODES == {NAGIOS_OK, NAGIOS_WARNING, NAGIOS_CRITICAL, NAGIOS_UNKNOWN}

\* class DiagCmd
DRIVER == 2
COMM == 3
FIRMWARE_LEVEL == 4
PROTOCOL_LEVEL == 5
CAPABILITIES == 6
TOKEN_POLICIES == 7
TSV == 8
DUALPORT_DUMP == 9
DUALPORT_CMD == 10
TOKEN_INFO == 11
MECHANISM_INFO == 12
DEBUG_TRACE == 16

\* One catalog entry; verify = "" stands for an entry without a "verify" key.
Entry(label, pattern, custom) ==
    [label |-> label, acpt_pattern |-> pattern, verify |-> custom]

\* luna_info: command number -> label, acceptance pattern, custom verify method.
\* A pattern is named by its regular expression.
luna_info ==
    (DRIVER :> Entry("Driver Test", "drivers .+ detected", "")) @@
    (COMM :> Entry("Communication Test", "Test passed", "")) @@
    (FIRMWARE_LEVEL :> Entry("Read Firmware LevelTest", "Firmware: \\d+.\\d", "")) @@
    (PROTOCOL_LEVEL :> Entry("Read Protocol Level Test", "Protocol level: \\d+", "")) @@
    (CAPABILITIES :> Entry("Read Capabilities Test", "lunadiag\\s+version \\d+", "")) @@
    (TOKEN_POLICIES :> Entry("Read Token Policies Test", "lunadiag\\s+version \\d+", "")) @@
    (TSV :> Entry("Read TSV Test", "Error\\s+Flag\\s+=\\s+0\\s+", "")) @@
    (DUALPORT_DUMP :> Entry("Read Dualport Test", "\\w{4}: \\w\\w \\w\\w \\w\\w \\w\\w", "")) @@
    (DUALPORT_CMD :> Entry("Read Dualport Command Test", "\\w{4,}: \\w\\w \\w\\w \\w\\w \\w\\w", "")) @@
    (TOKEN_INFO :> Entry("Token Info Test", "Free:\\s+\\d{5,}", "verify_token_info")) @@
    (MECHANISM_INFO :> Entry("Mechanism Info Test", "Test passed", "")) @@
    (DEBUG_TRACE :> Entry("Read Debug/Trace Information Test", "lunadiag\\s+version \\d+", ""))

\* luna_info.keys(): the keys in the order CPython 2 iterates a dict of these
\* small integers (each hashes to itself, no collisions): ascending.
luna_info_keys ==
    <<DRIVER, COMM, FIRMWARE_LEVEL, PROTOCOL_LEVEL, CAPABILITIES, TOKEN_POLICIES,
      TSV, DUALPORT_DUMP, DUALPORT_CMD, TOKEN_INFO, MECHANISM_INFO, DEBUG_TRACE>>

(***************************************************************************)
(* Captured output.  stdout is a sequence of lines; a line is described by *)
(* what the program's regular expressions find in it:                      *)
(*   header  "(User|SO) Container Storage Info", s = the group             *)
(*   blank   "^\s*$"                                                       *)
(*   Total / Used   "(Total|Used):\s+(\d+)", n = the number                *)
(*   text    any other line, s = the acceptance pattern found in it        *)
(*           ("" when it holds none)                                       *)
(***************************************************************************)
Line(kind, s, n) == [kind |-> kind, s |-> s, n |-> n]

Totals == {0, 100}
Useds == {84, 85, 94, 95}

\* Lines a token-info run can print.
TokenLines ==
    {Line("header", c, 0) : c \in {"User", "SO"}} \cup
    {Line("blank", "", 0)} \cup
    {Line("Total", "", t) : t \in Totals} \cup
    {Line("Used", "", u) : u \in Useds} \cup
    {Line("text", luna_info[TOKEN_INFO].acpt_pattern, 0)}

\* Lines any other command can print: with its acceptance pattern or without.
TextLines(diag) ==
    {Line("text", "", 0)} \cup
    (IF diag \in DOMAIN luna_info
        THEN {Line("text", luna_info[diag].acpt_pattern, 0)}
        ELSE {})

SeqsUpTo(S, n) == UNION {[1..k -> S] : k \in 0..n}

\* The stdout captures drawn for command number diag.
Stdouts(diag) ==
    IF diag = TOKEN_INFO THEN SeqsUpTo(TokenLines, MaxLines)
                         ELSE SeqsUpTo(TextLines(diag), MaxLines)

\* The stderr captures drawn.
Stderrs == {"", "lunadiag: error"}

\* re.search(valid_pattern, hsm_output)
re_search(pattern, output) ==
    \E j \in 1..Len(output) : output[j].kind = "text" /\ output[j].s = pattern

(***************************************************************************)
(* Messages and outcomes of a call.                                        *)
(***************************************************************************)
Msg(kind, s, n) == [kind |-> kind, s |-> s, n |-> n]

\* "%s EXCEEDED time limit of %d secs!!!"
ExceededMsg(label) == Msg("EXCEEDED time limit", label, TIME_LIMIT)
\* "%s FAILED."
FailedMsg(label) == Msg("FAILED.", label, 0)
\* "HSM %s disk usage: %6.2f exceeded threshold!!!" (n: the percentage in hundredths)
UsageMsg(state, pct100) == Msg("disk usage exceeded threshold", state, pct100)
AllOkMsg == Msg("All OK", "", 0)

\* How a call ends: it returns a value, it leaves through nagios_exit
\* (sys.exit), or it raises.
Returns(code) == [kind |-> "return", code |-> code, msg |-> AllOkMsg, exc |-> ""]
Exits(msg, code) == [kind |-> "exit", code |-> code, msg |-> msg, exc |-> ""]
Raises(exc) == [kind |-> "raise", code |-> -1, msg |-> AllOkMsg, exc |-> exc]

(***************************************************************************)
(* verify_token_info                                                       *)
(***************************************************************************)
NoState == "None"
\* space_info = {}: neither key present
EmptyInfo == [hasTotal |-> FALSE, Total |-> 0, hasUsed |-> FALSE, Used |-> 0]

\* space_info[type] = float(mobj.group(2))
StoreInfo(space_info, type, n) ==
    IF type = "Total"
        THEN [space_info EXCEPT !.hasTotal = TRUE, !.Total = n]
        ELSE [space_info EXCEPT !.hasUsed = TRUE, !.Used = n]

\* "%6.2f" % pct, in hundredths, for pct = 100.0 * used / total
Pct100(used, total) == (2 * 10000 * used + total) \div (2 * total)

\* pct >= limit for pct = 100.0 * used / total, total > 0
PctAtLeast(used, total, limit) == 100 * used >= limit * total

\* The two threshold tests and their nagios_exit calls.  NAGIOS_WARN is not an
\* attribute of CheckHsmBase: evaluating the argument raises AttributeError
\* before nagios_exit is entered.
UsageCheck(state, used, total) ==
    IF PctAtLeast(used, total, DISK_LIMIT_CRITICAL)
        THEN Exits(UsageMsg(state, Pct100(used, total)), NAGIOS_CRITICAL)
    ELSE IF PctAtLeast(used, total, DISK_LIMIT_WARN)
        THEN Raises("AttributeError: NAGIOS_WARN")
    ELSE Returns(NAGIOS_OK)

\* The body run when a Used line has been stored.
UsedLine(state, space_info) ==
    IF ~space_info.hasTotal THEN Raises("KeyError: 'Total'")
    ELSE IF space_info.Total = 0 THEN Raises("ZeroDivisionError")
    ELSE UsageCheck(state, space_info.Used, space_info.Total)

RECURSIVE token_lines_unguarded(_, _, _, _)
\* Variant of token_lines without the "if state:" test: blank, Total and Used
\* lines are handled whether or not a container header has been seen.
token_lines_unguarded(lines, j, state, space_info) ==
    IF j > Len(lines) THEN Returns(NAGIOS_OK)
    ELSE LET line == lines[j] IN
        IF line.kind = "header"
            THEN token_lines_unguarded(lines, j + 1, line.s, space_info)
        ELSE IF line.kind = "blank"
            THEN token_lines_unguarded(lines, j + 1, NoState, EmptyInfo)
        ELSE IF line.kind \in {"Total", "Used"}
            THEN LET si == StoreInfo(space_info, line.kind, line.n)
                     r == UsedLine(state, si)
                 IN  IF line.kind = "Used" /\ r.kind # "return"
                        THEN r
                        ELSE token_lines_unguarded(lines, j + 1, state, si)
        ELSE token_lines_unguarded(lines, j + 1, state, space_info)

RECURSIVE token_lines(_, _, _, _)
\* The for loop over hsm_output.split("\n"), from line j on.
token_lines(lines, j, state, space_info) ==
    IF j > Len(lines) THEN Returns(NAGIOS_OK)
    ELSE LET line == lines[j] IN
        IF line.kind = "header"
            THEN token_lines(lines, j + 1, line.s, space_info)
        ELSE IF state = NoState
            THEN token_lines(lines, j + 1, state, space_info)
        ELSE IF line.kind = "blank"
            THEN token_lines(lines, j + 1, NoState, EmptyInfo)
        ELSE IF line.kind \in {"Total", "Used"}
            THEN LET si == StoreInfo(space_info, line.kind, line.n)
                     r == UsedLine(state, si)
                 IN  IF line.kind = "Used" /\ r.kind # "return"
                        THEN r
                        ELSE token_lines(lines, j + 1, state, si)
        ELSE token_lines(lines, j + 1, state, space_info)

verify_token_info(hsm_output) == token_lines(hsm_output, 1, NoState, EmptyInfo)

\* getattr(self, custom_verify)(hsm_output)
custom_func(custom_verify, hsm_output) ==
    IF custom_verify = "verify_token_info"
        THEN verify_token_info(hsm_output)
        ELSE Raises("AttributeError: " \o custom_verify)

(***************************************************************************)
(* The post-communicate part of verify()'s loop body.                      *)
(***************************************************************************)
\* Variant of StderrPresent that never looks at the stderr capture.
StderrIgnored(hsm_error) == FALSE

\* if hsm_error:
StderrPresent(hsm_error) == hsm_error # ""

\* Whether the custom verify method or the acceptance pattern is consulted
\* for this command and capture.
ChecksOutput(diag, hsm_error) ==
    diag \in DOMAIN luna_info /\ ~StderrPresent(hsm_error)

\* Variant of RetcodeCheck that hands any non-OK retcode to nagios_exit.
RetcodeUnchecked(retcode, errmsg) ==
    IF retcode # NAGIOS_OK THEN Exits(errmsg, retcode) ELSE Returns(NAGIOS_OK)

\* The retcode tests after custom_func returned.
RetcodeCheck(retcode, errmsg) ==
    IF retcode # NAGIOS_OK
        THEN IF retcode \in VALID_NAGIOS_RETCODES
                THEN Exits(errmsg, retcode)
                ELSE Exits(errmsg, NAGIOS_CRITICAL)
        ELSE Returns(NAGIOS_OK)

\* Variant of verify_check that looks for the acceptance pattern of every
\* entry before a custom verify method is tried.
verify_check_pattern_first(diag, hsm_output, hsm_error) ==
    IF diag \notin DOMAIN luna_info THEN Raises("KeyError: diag")
    ELSE LET errmsg == FailedMsg(luna_info[diag].label)
             custom_verify == luna_info[diag].verify
         IN  IF StderrPresent(hsm_error) THEN Exits(errmsg, NAGIOS_CRITICAL)
             ELSE IF ~re_search(luna_info[diag].acpt_pattern, hsm_output)
                THEN Exits(errmsg, NAGIOS_CRITICAL)
             ELSE IF custom_verify # ""
                THEN LET r == custom_func(custom_verify, hsm_output)
                     IN  IF r.kind = "return" THEN RetcodeCheck(r.code, errmsg)
                                              ELSE r
             ELSE Returns(NAGIOS_OK)

\* From the errmsg assignment to the end of the loop body: Returns(NAGIOS_OK)
\* stands for falling through to the next iteration.
verify_check(diag, hsm_output, hsm_error) ==
    IF diag \notin DOMAIN luna_info THEN Raises("KeyError: diag")
    ELSE LET errmsg == FailedMsg(luna_info[diag].label)
             custom_verify == luna_info[diag].verify
         IN  IF StderrPresent(hsm_error) THEN Exits(errmsg, NAGIOS_CRITICAL)
             ELSE IF custom_verify # ""
                THEN LET r == custom_func(custom_verify, hsm_output)
                     IN  IF r.kind = "return" THEN RetcodeCheck(r.code, errmsg)
                                              ELSE r
             ELSE IF ~re_search(luna_info[diag].acpt_pattern, hsm_output)
                THEN Exits(errmsg, NAGIOS_CRITICAL)
             ELSE Returns(NAGIOS_OK)

(***************************************************************************)
(* State.                                                                  *)
(***************************************************************************)
VARIABLES
    mode,               \* "main": run as a script; "lib": imported, as the test does
    opts,               \* the parsed options: [slot, cmd]
    default_diag_list,  \* the list object that is __init__'s default diag_list
    diag_list,          \* self.diag_list
    pre_cmd,            \* self.pre_cmd: [tool, slot] of "%s -s=%d -c="
    pc,                 \* where control is
    i,                  \* position of the for loop in diag_list, from 1
    p,                  \* verify()'s local p: index into procs, 0 while unbound
    procs,              \* the child processes started, in order: [cmd, status]
    alarm,              \* a SIGALRM is scheduled
    hsm_output,         \* verify()'s local hsm_output
    hsm_error,          \* verify()'s local hsm_error
    printed,            \* the lines printed on stdout
    exit_code,          \* the exit status, -1 while running
    fault,              \* the exception that left verify()/main() unhandled
    retval,             \* what verify() returned, -1 before
    classified,         \* loop positions whose output was given to a classifier
    timed_out,          \* loop positions at which the Alarm handler ran
    objects,            \* the CheckHsm objects constructed so far, in order
    retcode             \* verify()'s local retcode, -1 while unassigned (or None)

vars == <<mode, opts, default_diag_list, diag_list, pre_cmd, pc, i, p, procs,
          alarm, hsm_output, hsm_error, printed, exit_code, fault, retval,
          classified, timed_out, objects, retcode>>

\* Option values drawn for --slot and --cmd (defaults 1 and 0).
OptSlots == {1, 2}
OptCmds == {0, COMM}

\* Arguments a library caller passes to CheckHsm(...).
ListArgs ==
    {<<>>, <<DRIVER, COMM>>, <<TOKEN_INFO, COMM>>, <<COMM, UnknownId>>}
CtorArgs ==
    {[diag_tool |-> "./mock_diag.sh", given |-> FALSE, diag_list |-> <<>>, slot |-> 1]}
    \cup {[diag_tool |-> "", given |-> TRUE, diag_list |-> l, slot |-> 2] : l \in ListArgs}

Init ==
    /\ mode \in {"main", "lib"}
    /\ opts \in [slot : OptSlots, cmd : OptCmds]
    /\ (mode = "lib" => opts = [slot |-> 1, cmd |-> 0])
    /\ default_diag_list = <<>>
    /\ diag_list = <<>>
    /\ pre_cmd = [tool |-> "", slot |-> 0]
    /\ pc = "loaded"
    /\ i = 0
    /\ p = 0
    /\ procs = <<>>
    /\ alarm = FALSE
    /\ hsm_output = <<>>
    /\ hsm_error = ""
    /\ printed = <<>>
    /\ exit_code = -1
    /\ fault = ""
    /\ retval = -1
    /\ classified = {}
    /\ timed_out = {}
    /\ objects = <<>>
    /\ retcode = -1

(***************************************************************************)
(* __init__                                                                *)
(***************************************************************************)
\* The list object bound to the parameter diag_list.
ListObject(given, arg) == IF given THEN arg ELSE default_diag_list

\* Variant of FilledList without the "if not self.diag_list" test.
FilledListAlways(list) == list \o luna_info_keys

\* self.diag_list after the "if not self.diag_list" block.
FilledList(list) == IF list = <<>> THEN luna_info_keys ELSE list

\* The object as the constructor leaves it: self.diag_list is the very list
\* object that was passed, so it is either the shared default (shared) or the
\* caller's own list; asked_all records that no list or an empty one was passed.
NewObject(given, arg) ==
    [shared |-> ~given,
     asked_all |-> (~given \/ arg = <<>>),
     own |-> IF given THEN FilledList(arg) ELSE <<>>]

\* The whole constructor; the appends go to the list object itself, which is
\* the shared default when no diag_list was passed.
ctor(diag_tool, given, arg, slot) ==
    /\ diag_list' = FilledList(ListObject(given, arg))
    /\ default_diag_list' = IF given THEN default_diag_list
                                     ELSE FilledList(default_diag_list)
    /\ pre_cmd' = [tool |-> IF diag_tool # "" THEN diag_tool ELSE DIAG_TOOL,
                   slot |-> slot]
    /\ objects' = Append(objects, NewObject(given, arg))

\* How control leaves through an exception or sys.exit.
Leave(r) ==
    IF r.kind = "exit"
        THEN /\ pc' = "exited"
             /\ printed' = Append(printed, r.msg)
             /\ exit_code' = r.code
             /\ fault' = fault
        ELSE /\ pc' = "fault"
             /\ printed' = printed
             /\ exit_code' = IF mode = "main" THEN 1 ELSE exit_code
             /\ fault' = r.exc

\* nagios_exit(msg, exit_code), msg given
nagios_exit(msg, code) == Leave(Exits(msg, code))

\* main(): cho = CheckHsm(), then cho.verify() is entered.
MainStart ==
    /\ mode = "main" /\ pc = "loaded"
    /\ ctor("", FALSE, <<>>, 1)
    /\ pc' = "loop" /\ i' = 1
    /\ UNCHANGED <<retcode, mode, opts, p, procs, alarm, hsm_output, hsm_error, printed,
                   exit_code, fault, retval, classified, timed_out>>

\* A library caller: obj = CheckHsm(...), then obj.verify() is entered.
LibStart ==
    /\ mode = "lib" /\ pc = "loaded"
    /\ \E a \in CtorArgs : ctor(a.diag_tool, a.given, a.diag_list, a.slot)
    /\ pc' = "loop" /\ i' = 1
    /\ UNCHANGED <<retcode, mode, opts, p, procs, alarm, hsm_output, hsm_error, printed,
                   exit_code, fault, retval, classified, timed_out>>

(***************************************************************************)
(* verify()                                                                *)
(***************************************************************************)
\* hsm_diag_cmd.split(): [tool, "-s=<slot>", "-c=<diag>"]
hsm_cmd_list(diag) == [tool |-> pre_cmd.tool, s |-> pre_cmd.slot, c |-> diag]

\* Top of an iteration: the command is built, the locals are reset and
\* signal.alarm(TIME_LIMIT) is called.
SetAlarm ==
    /\ pc = "loop" /\ i <= Len(diag_list)
    /\ hsm_output' = <<>> /\ hsm_error' = ""
    /\ alarm' = TRUE
    /\ pc' = "armed"
    /\ UNCHANGED <<objects, retcode, mode, opts, default_diag_list, diag_list, pre_cmd, i, p, procs,
                   printed, exit_code, fault, retval, classified, timed_out>>

\* The list is exhausted: return CheckHsmBase.NAGIOS_OK.
VerifyReturn ==
    /\ pc = "loop" /\ i > Len(diag_list)
    /\ retval' = NAGIOS_OK
    /\ pc' = "returned"
    /\ UNCHANGED <<objects, retcode, mode, opts, default_diag_list, diag_list, pre_cmd, i, p, procs,
                   alarm, hsm_output, hsm_error, printed, exit_code, fault,
                   classified, timed_out>>

\* Inside subprocess.Popen: the child is forked; p is not assigned yet.
PopenFork ==
    /\ pc = "armed"
    /\ procs' = Append(procs, [cmd |-> hsm_cmd_list(diag_list[i]), status |-> "running"])
    /\ pc' = "forked"
    /\ UNCHANGED <<objects, retcode, mode, opts, default_diag_list, diag_list, pre_cmd, i, p, alarm,
                   hsm_output, hsm_error, printed, exit_code, fault, retval,
                   classified, timed_out>>

\* Popen returns: p = the new process.
PopenReturn ==
    /\ pc = "forked"
    /\ p' = Len(procs)
    /\ pc' = "spawned"
    /\ UNCHANGED <<objects, retcode, mode, opts, default_diag_list, diag_list, pre_cmd, i, procs, alarm,
                   hsm_output, hsm_error, printed, exit_code, fault, retval,
                   classified, timed_out>>

\* Popen raises OSError: the child could not exec the tool.  Nothing in
\* verify() catches it, and the alarm stays scheduled.
PopenOSError ==
    /\ pc = "forked"
    /\ procs' = [procs EXCEPT ![Len(procs)].status = "exec failed"]
    /\ Leave(Raises("OSError"))
    /\ UNCHANGED <<objects, retcode, mode, opts, default_diag_list, diag_list, pre_cmd, i, p, alarm,
                   hsm_output, hsm_error, retval, classified, timed_out>>

\* Variant of Communicate that reads the output without waiting for the
\* child to end.
CommunicateNoWait ==
    /\ pc = "spawned"
    /\ \E out \in Stdouts(diag_list[i]), err \in Stderrs :
          hsm_output' = out /\ hsm_error' = err
    /\ procs' = procs
    /\ pc' = "communicated"
    /\ UNCHANGED <<objects, retcode, mode, opts, default_diag_list, diag_list, pre_cmd, i, p, alarm,
                   printed, exit_code, fault, retval, classified, timed_out>>

\* p.communicate() returns: the child has ended and been reaped.
Communicate ==
    /\ pc = "spawned"
    /\ \E out \in Stdouts(diag_list[i]), err \in Stderrs :
          hsm_output' = out /\ hsm_error' = err
    /\ procs' = [procs EXCEPT ![p].status = "exited"]
    /\ pc' = "communicated"
    /\ UNCHANGED <<objects, retcode, mode, opts, default_diag_list, diag_list, pre_cmd, i, p, alarm,
                   printed, exit_code, fault, retval, classified, timed_out>>

\* signal.alarm(0)
CancelAlarm ==
    /\ pc = "communicated"
    /\ alarm' = FALSE
    /\ pc' = "check"
    /\ UNCHANGED <<objects, retcode, mode, opts, default_diag_list, diag_list, pre_cmd, i, p, procs,
                   hsm_output, hsm_error, printed, exit_code, fault, retval,
                   classified, timed_out>>

\* Variant of NextIndex that skips the following list element.
NextIndexSkipping(k) == k + 2

\* The loop variable after an iteration that fell through.
NextIndex(k) == k + 1

\* retcode = custom_func(hsm_output): assigned when the custom verify method
\* is reached and returns.
retcode_after(diag, output, error) ==
    IF ChecksOutput(diag, error) /\ luna_info[diag].verify # ""
          /\ custom_func(luna_info[diag].verify, output).kind = "return"
        THEN custom_func(luna_info[diag].verify, output).code
        ELSE retcode

\* The rest of the loop body, after the try statement.
Check ==
    /\ pc = "check"
    /\ LET diag == diag_list[i]
           r == verify_check(diag, hsm_output, hsm_error)
       IN  /\ classified' = IF ChecksOutput(diag, hsm_error)
                               THEN classified \cup {i} ELSE classified
           /\ IF r.kind = "return"
                 THEN /\ i' = NextIndex(i)
                      /\ pc' = "loop"
                      /\ UNCHANGED <<printed, exit_code, fault>>
                 ELSE /\ Leave(r)
                      /\ i' = i
    /\ retcode' = retcode_after(diag_list[i], hsm_output, hsm_error)
    /\ UNCHANGED <<objects, mode, opts, default_diag_list, diag_list, pre_cmd, p, procs,
                   alarm, hsm_output, hsm_error, retval, timed_out>>

\* os.kill(p.pid, SIGKILL) on process k: a running child is killed; for one
\* that was already reaped the call raises OSError, which is passed over.
os_kill(k) ==
    IF procs[k].status = "running"
        THEN [procs EXCEPT ![k].status = "killed"]
        ELSE procs

\* Variant of kill_try without the "except OSError: pass" clause.
kill_try_uncaught(k) ==
    IF k = 0 THEN Raises("UnboundLocalError: p")
    ELSE IF procs[k].status # "running" THEN Raises("OSError")
    ELSE Returns(NAGIOS_OK)

\* The inner try statement of the except Alarm clause, p being process k:
\* reading p.pid of an unbound p raises UnboundLocalError, which the
\* "except OSError" clause does not catch; an OSError of os.kill is passed
\* over.  Returns stands for going on to the nagios_exit call.
kill_try(k) ==
    IF k = 0 THEN Raises("UnboundLocalError: p")
    ELSE Returns(NAGIOS_OK)

\* The except Alarm clause, for command number diag.
alarm_clause(diag) ==
    IF diag \notin DOMAIN luna_info THEN Raises("KeyError: diag")
    ELSE IF kill_try(p).kind # "return" THEN kill_try(p)
    ELSE Exits(ExceededMsg(luna_info[diag].label), NAGIOS_CRITICAL)

\* SIGALRM is delivered while control is inside the try statement:
\* alarm_handler raises Alarm and the except clause runs.
AlarmInTry ==
    /\ alarm /\ pc \in {"armed", "forked", "spawned", "communicated"}
    /\ alarm' = FALSE
    /\ timed_out' = timed_out \cup {i}
    /\ LET r == alarm_clause(diag_list[i])
       IN  /\ procs' = IF r.kind = "exit" THEN os_kill(p) ELSE procs
           /\ Leave(r)
    /\ UNCHANGED <<objects, retcode, mode, opts, default_diag_list, diag_list, pre_cmd, i, p,
                   hsm_output, hsm_error, retval, classified>>

\* SIGALRM is delivered after an exception left verify() into a library
\* caller with the alarm still scheduled: Alarm is raised in the caller.
AlarmInCaller ==
    /\ alarm /\ pc = "fault" /\ mode = "lib"
    /\ alarm' = FALSE
    /\ fault' = "Alarm"
    /\ UNCHANGED <<objects, retcode, mode, opts, default_diag_list, diag_list, pre_cmd, pc, i, p, procs,
                   hsm_output, hsm_error, printed, exit_code, retval, classified,
                   timed_out>>

\* main() after cho.verify(): cho.nagios_exit("All OK", CheckHsm.NAGIOS_OK)
MainExit ==
    /\ mode = "main" /\ pc = "returned"
    /\ nagios_exit(AllOkMsg, NAGIOS_OK)
    /\ UNCHANGED <<objects, retcode, mode, opts, default_diag_list, diag_list, pre_cmd, i, p, procs,
                   alarm, hsm_output, hsm_error, retval, classified, timed_out>>

Next ==
    \/ MainStart
    \/ LibStart
    \/ SetAlarm
    \/ VerifyReturn
    \/ PopenFork
    \/ PopenReturn
    \/ PopenOSError
    \/ Communicate
    \/ CancelAlarm
    \/ Check
    \/ AlarmInTry
    \/ AlarmInCaller
    \/ MainExit

Spec == Init /\ [][Next]_vars


(***************************************************************************)
(* The retcode tests of verify() on their own: a custom verify method      *)
(* (verify_token_info, or one a subclass such as CheckHsm adds) has just   *)
(* returned some value.                                                    *)
(***************************************************************************)
\* largest integer a custom verify method is made to return
MaxRetcode == 5

\* Values returned by a custom verify method; -1 stands for None (a method
\* that returns no value), which equals no severity.
RetVals == -1..MaxRetcode

\* Configured lists that hold the command with a custom verify method.
CustomLists == {luna_info_keys, <<TOKEN_INFO, COMM>>, <<TOKEN_INFO>>}

\* The position of command number diag in list.
PositionOf(list, diag) == CHOOSE k \in 1..Len(list) : list[k] = diag

\* verify() inside the iteration for TOKEN_INFO (in a library call), every
\* earlier command passed, custom_func has returned retcode.
InitRetcode ==
    /\ mode = "lib"
    /\ opts = [slot |-> 1, cmd |-> 0]
    /\ default_diag_list = <<>>
    /\ diag_list \in CustomLists
    /\ pre_cmd = [tool |-> DIAG_TOOL, slot |-> 1]
    /\ pc = "retcode"
    /\ i = PositionOf(diag_list, TOKEN_INFO)
    /\ p = i
    /\ procs = [k \in 1..i |-> [cmd |-> hsm_cmd_list(diag_list[k]), status |-> "exited"]]
    /\ alarm = FALSE
    /\ hsm_output \in Stdouts(TOKEN_INFO)
    /\ hsm_error = ""
    /\ printed = <<>>
    /\ exit_code = -1
    /\ fault = ""
    /\ retval = -1
    /\ classified = 1..i
    /\ timed_out = {}
    /\ objects = <<NewObject(TRUE, diag_list)>>
    /\ retcode \in RetVals

\* The retcode tests and, when they pass, the end of the loop body.
RetcodeStep ==
    /\ pc = "retcode"
    /\ LET r == RetcodeCheck(retcode, FailedMsg(luna_info[diag_list[i]].label))
       IN  IF r.kind = "return"
              THEN /\ i' = NextIndex(i)
                   /\ pc' = "loop"
                   /\ UNCHANGED <<printed, exit_code, fault>>
              ELSE /\ Leave(r)
                   /\ i' = i
    /\ UNCHANGED <<objects, retcode, mode, opts, default_diag_list, diag_list, pre_cmd,
                   p, procs, alarm, hsm_output, hsm_error, retval, classified,
                   timed_out>>

NextRetcode == RetcodeStep

SpecRetcode == InitRetcode /\ [][NextRetcode]_vars

(***************************************************************************)
(* The token-info check on longer captures: verify() is at the checks      *)
(* after the try statement for TOKEN_INFO, in time and with empty stderr.  *)
(***************************************************************************)
\* longest token-info capture drawn line by line
MaxTokenLines == 4

\* One container section as lunadiag prints it: header, Total: t, Used: u.
Section(c, t, u) == <<Line("header", c, 0), Line("Total", "", t), Line("Used", "", u)>>

Sections == {Section(c, t, u) : c \in {"User", "SO"}, t \in Totals, u \in Useds}

\* Two sections, directly one after the other or with a blank line between.
TwoSections ==
    {a \o sep \o b : a \in Sections, b \in Sections,
                    sep \in {<<>>, <<Line("blank", "", 0)>>}}

TokenCaptures == SeqsUpTo(TokenLines, MaxTokenLines) \cup TwoSections

InitToken ==
    /\ mode = "lib"
    /\ opts = [slot |-> 1, cmd |-> 0]
    /\ default_diag_list = <<>>
    /\ diag_list \in {<<TOKEN_INFO>>, <<TOKEN_INFO, COMM>>}
    /\ pre_cmd = [tool |-> DIAG_TOOL, slot |-> 1]
    /\ pc = "check"
    /\ i = 1
    /\ p = 1
    /\ procs = <<[cmd |-> hsm_cmd_list(TOKEN_INFO), status |-> "exited"]>>
    /\ alarm = FALSE
    /\ hsm_output \in TokenCaptures
    /\ hsm_error = ""
    /\ printed = <<>>
    /\ exit_code = -1
    /\ fault = ""
    /\ retval = -1
    /\ classified = {}
    /\ timed_out = {}
    /\ objects = <<NewObject(TRUE, diag_list)>>
    /\ retcode = -1

NextToken ==
    \/ Check
    \/ VerifyReturn

SpecToken == InitToken /\ [][NextToken]_vars

(***************************************************************************)
(* Vocabulary of the properties.                                           *)
(***************************************************************************)
\* The run is over: sys.exit was called or an exception went unhandled.
RunEnded == pc \in {"exited", "fault"}

\* Every configured command number is a key of luna_info.
ListKnown == \A j \in 1..Len(diag_list) : diag_list[j] \in DOMAIN luna_info

\* The command numbers of the child processes started, in order.
StartedDiags == [k \in 1..Len(procs) |-> procs[k].cmd.c]

\* The iteration at position k has just gone through the checks that follow
\* the try statement, in time and with hsm_output/hsm_error still its capture.
JustChecked(k) ==
    /\ k \in 1..Len(diag_list)
    /\ k \notin timed_out
    /\ Len(procs) = k /\ procs[k].status = "exited"
    /\ \/ RunEnded /\ i = k
       \/ pc = "loop" /\ i = k + 1

(***************************************************************************)
(* C1 (stated as claimed): when the command at position k is the first one *)
(* that does not classify OK, the run ends with that command's verdict - a *)
(* message and a severity WARNING, CRITICAL or UNKNOWN passed to           *)
(* nagios_exit - and exactly k child processes (positions 1..k) have been  *)
(* started.                                                                *)
(***************************************************************************)
C1_FailFast ==
    (RunEnded /\ ListKnown /\ JustChecked(i))
        => /\ pc = "exited"
           /\ Len(printed) = 1
           /\ exit_code \in {NAGIOS_WARNING, NAGIOS_CRITICAL, NAGIOS_UNKNOWN}
           /\ Len(procs) = i

(***************************************************************************)
(* C2: when every configured command finished in time with empty stderr    *)
(* and classified OK, every configured command was executed exactly once,  *)
(* in the configured order; verify() returns NAGIOS_OK without exiting     *)
(* (nothing printed, no exit status), and main() then ends the run with    *)
(* the single message "All OK" and exit status NAGIOS_OK.                  *)
(***************************************************************************)
AllPassed ==
    /\ pc \in {"returned", "exited"}
    /\ i = Len(diag_list) + 1

C2_AllPass ==
    AllPassed
        => /\ StartedDiags = diag_list
           /\ \A k \in 1..Len(procs) :
                 /\ procs[k].status = "exited"
                 /\ procs[k].cmd.tool = pre_cmd.tool
                 /\ procs[k].cmd.s = pre_cmd.slot
           /\ classified = 1..Len(diag_list)
           /\ timed_out = {}
           /\ retval = NAGIOS_OK
           /\ fault = ""
           /\ pc = "returned" => (printed = <<>> /\ exit_code = -1)
           /\ pc = "exited" => (mode = "main" /\ printed = <<AllOkMsg>>
                                /\ exit_code = NAGIOS_OK)

\* main() ran all twelve catalog commands and ended with "All OK".
C2_Witness ==
    /\ mode = "main" /\ pc = "exited"
    /\ exit_code = NAGIOS_OK /\ printed = <<AllOkMsg>>
    /\ retval = NAGIOS_OK
    /\ StartedDiags = luna_info_keys

(***************************************************************************)
(* C3 (stated as claimed): once the alarm of a command has expired before  *)
(* being cancelled, the run has ended with the CRITICAL time-limit verdict *)
(* of that command and no child process is running any more.               *)
(***************************************************************************)
C3_Timeout ==
    (timed_out # {} /\ ListKnown)
        => /\ pc = "exited"
           /\ exit_code = NAGIOS_CRITICAL
           /\ printed = <<ExceededMsg(luna_info[diag_list[i]].label)>>
           /\ \A k \in 1..Len(procs) : procs[k].status # "running"

(***************************************************************************)
(* C4: for a catalog command that completed in time with a non-empty       *)
(* stderr capture, the step after the try statement ends the run with      *)
(* severity CRITICAL and the one message "<label> FAILED.", whatever the   *)
(* stdout capture is, and neither the custom verify method nor the         *)
(* acceptance pattern is consulted.                                        *)
(***************************************************************************)
C4_StderrCritical ==
    [][(pc = "check" /\ hsm_error # "" /\ diag_list[i] \in DOMAIN luna_info)
        => /\ pc' = "exited"
           /\ exit_code' = NAGIOS_CRITICAL
           /\ printed' = <<FailedMsg(luna_info[diag_list[i]].label)>>
           /\ classified' = classified]_vars

\* Token info printed a section at 85% (which its custom verify would not
\* pass as CRITICAL) together with a stderr text, and the run ended CRITICAL
\* with "Token Info Test FAILED.".
C4_Witness ==
    /\ pc = "exited" /\ JustChecked(i)
    /\ diag_list[i] = TOKEN_INFO
    /\ hsm_error # ""
    /\ hsm_output = Section("User", 100, 85)
    /\ exit_code = NAGIOS_CRITICAL
    /\ printed = <<FailedMsg("Token Info Test")>>
    /\ i \notin classified

(***************************************************************************)
(* C5 (stated as claimed): for a token-info capture holding one container  *)
(* header followed by Total: t and Used: u with t > 0 (stderr empty), the  *)
(* verdict is CRITICAL when 100*u/t >= 95, WARNING when 85 <= 100*u/t < 95 *)
(* and OK (the loop goes on) otherwise.                                    *)
(***************************************************************************)
C5_Thresholds ==
    \A k \in {i - 1, i} : \A c \in {"User", "SO"}, t \in Totals \ {0}, u \in Useds :
        (/\ JustChecked(k)
         /\ diag_list[k] = TOKEN_INFO
         /\ hsm_error = ""
         /\ hsm_output = Section(c, t, u))
            => IF 100 * u >= 95 * t
                  THEN pc = "exited" /\ exit_code = NAGIOS_CRITICAL
               ELSE IF 100 * u >= 85 * t
                  THEN pc = "exited" /\ exit_code = NAGIOS_WARNING
               ELSE pc = "loop"

(***************************************************************************)
(* C6 (stated as claimed): for a token-info capture in which a Used line   *)
(* is met inside a container context while Total is zero or has not been   *)
(* seen, the verdict is CRITICAL with a "malformed output" message and no  *)
(* arithmetic or lookup fault is raised.                                   *)
(***************************************************************************)
C6_Malformed ==
    \A c \in {"User", "SO"}, u \in Useds :
        (/\ JustChecked(i)
         /\ RunEnded
         /\ diag_list[i] = TOKEN_INFO
         /\ hsm_error = ""
         /\ hsm_output \in {<<Line("header", c, 0), Line("Used", "", u)>>,
                            Section(c, 0, u)})
            => /\ pc = "exited"
               /\ fault = ""
               /\ exit_code = NAGIOS_CRITICAL
               /\ Len(printed) = 1 /\ printed[1].kind = "malformed output"

(***************************************************************************)
(* C7 (stated as claimed): when the configured list holds a command number *)
(* that is not a key of luna_info, no child process is ever started.       *)
(***************************************************************************)
C7_UnknownId ==
    (pc # "loaded" /\ ~ListKnown) => procs = <<>>

(***************************************************************************)
(* C8 (stated as claimed): when the diagnostic executable could not be     *)
(* started for a command, the run ends with a CRITICAL verdict.            *)
(***************************************************************************)
C8_LaunchFailure ==
    (procs # <<>> /\ procs[Len(procs)].status = "exec failed")
        => /\ pc = "exited"
           /\ exit_code = NAGIOS_CRITICAL
           /\ Len(printed) = 1

(***************************************************************************)
(* C9 (stated as claimed): every run ends by printing exactly one verdict  *)
(* message and exiting with a status in {0,1,2,3} passed to nagios_exit;   *)
(* no run ends in an unhandled fault.                                      *)
(***************************************************************************)
C9_OneVerdict ==
    RunEnded
        => /\ pc = "exited"
           /\ fault = ""
           /\ Len(printed) = 1
           /\ exit_code \in VALID_NAGIOS_RETCODES

(***************************************************************************)
(* C10 (stated as claimed): in a run of main(), every child process is     *)
(* started with -s equal to the --slot option; with --cmd 0 the configured *)
(* list is the whole catalog and with --cmd n only command n is run.       *)
(***************************************************************************)
C10_Options ==
    (mode = "main" /\ pc # "loaded")
        => /\ pre_cmd.slot = opts.slot
           /\ \A k \in 1..Len(procs) : procs[k].cmd.s = opts.slot
           /\ opts.cmd = 0 => diag_list = luna_info_keys
           /\ opts.cmd # 0 => diag_list = <<opts.cmd>>

(***************************************************************************)
(* C11: for a catalog command that completed in time with empty stderr,    *)
(* (a) when the entry has a custom verify method the outcome of the step   *)
(* is the one that method gives for the capture with every line holding    *)
(* the acceptance pattern taken out (the pattern is never consulted), and  *)
(* (b) otherwise the loop goes on when a line of the capture holds the     *)
(* entry's acceptance pattern and the run ends CRITICAL with               *)
(* "<label> FAILED." when none does.                                       *)
(***************************************************************************)
\* Some line of the capture holds the pattern.
HoldsPattern(output, pattern) ==
    \E j \in 1..Len(output) : output[j] = Line("text", pattern, 0)

\* The capture without the lines that are neither header, blank, Total nor Used.
WithoutText(output) == SelectSeq(output, LAMBDA l : l.kind # "text")

C11_DecisionOrder ==
    [][(pc = "check" /\ hsm_error = "" /\ diag_list[i] \in DOMAIN luna_info)
        => LET e == luna_info[diag_list[i]]
               r == custom_func(e.verify, WithoutText(hsm_output))
           IN  IF e.verify # ""
                  THEN /\ r.kind = "return" => (pc' = "loop" /\ i' = i + 1
                                                /\ printed' = printed)
                       /\ r.kind = "exit" => (pc' = "exited" /\ exit_code' = r.code
                                              /\ printed' = <<r.msg>>)
                       /\ r.kind = "raise" => (pc' = "fault" /\ fault' = r.exc)
               ELSE IF HoldsPattern(hsm_output, e.acpt_pattern)
                  THEN pc' = "loop" /\ i' = i + 1 /\ printed' = printed
               ELSE /\ pc' = "exited"
                    /\ exit_code' = NAGIOS_CRITICAL
                    /\ printed' = <<FailedMsg(e.label)>>]_vars

\* Token info printed one section at 84% and no "Free:" line, and passed.
C11_Witness ==
    /\ pc = "loop" /\ JustChecked(1)
    /\ diag_list[1] = TOKEN_INFO
    /\ hsm_error = ""
    /\ hsm_output = Section("User", 100, 84)
    /\ ~HoldsPattern(hsm_output, luna_info[TOKEN_INFO].acpt_pattern)

(***************************************************************************)
(* C12: once the retcode tests have run on the value a custom verify       *)
(* method returned, the loop has gone on when the value is NAGIOS_OK; the  *)
(* run has ended with exactly that severity when it is WARNING, CRITICAL   *)
(* or UNKNOWN; and it has ended CRITICAL for every other value, None       *)
(* included.  The message is "<label> FAILED.".                            *)
(***************************************************************************)
C12_Retcode ==
    pc # "retcode"
        => IF retcode = NAGIOS_OK
              THEN /\ pc = "loop"
                   /\ i = PositionOf(diag_list, TOKEN_INFO) + 1
                   /\ printed = <<>>
           ELSE /\ pc = "exited"
                /\ i = PositionOf(diag_list, TOKEN_INFO)
                /\ printed = <<FailedMsg(luna_info[diag_list[i]].label)>>
                /\ exit_code = IF retcode \in {NAGIOS_WARNING, NAGIOS_CRITICAL, NAGIOS_UNKNOWN}
                                  THEN retcode ELSE NAGIOS_CRITICAL

\* A custom verify method returned None and the run ended CRITICAL.
C12_Witness ==
    /\ pc = "exited"
    /\ retcode = -1
    /\ exit_code = NAGIOS_CRITICAL
    /\ printed = <<FailedMsg("Token Info Test")>>

(***************************************************************************)
(* Vocabulary of the token-info properties.                                *)
(***************************************************************************)
\* The state shows outcome r of the checks after the try statement.
Shows(r) ==
    /\ r.kind = "return" => (pc \in {"loop", "returned"} /\ printed = <<>> /\ fault = "")
    /\ r.kind = "exit" => (pc = "exited" /\ exit_code = r.code /\ printed = <<r.msg>>)
    /\ r.kind = "raise" => (pc = "fault" /\ fault = r.exc /\ printed = <<>>)

\* Usage 100*u/t reaches the warning threshold.
ReachesThreshold(u, t) == 100 * u >= 85 * t

\* The severity claimed for usage 100*u/t that reaches a threshold.
ThresholdSeverity(u, t) ==
    IF 100 * u >= 95 * t THEN NAGIOS_CRITICAL ELSE NAGIOS_WARNING

(***************************************************************************)
(* C13 (stated as claimed): for a token-info capture of two well-formed    *)
(* container sections (Total > 0), the verdict is that of the first        *)
(* section, in output order, whose usage reaches a threshold - WARNING     *)
(* from 85%, CRITICAL from 95%, with that section's usage message - and    *)
(* the command passes when neither section reaches one.                    *)
(***************************************************************************)
C13_FirstSection ==
    (pc # "check" /\ hsm_output \in TwoSections
        /\ hsm_output[2].n > 0 /\ hsm_output[Len(hsm_output) - 1].n > 0)
        => LET n == Len(hsm_output)
               c1 == hsm_output[1].s
               t1 == hsm_output[2].n
               u1 == hsm_output[3].n
               c2 == hsm_output[n - 2].s
               t2 == hsm_output[n - 1].n
               u2 == hsm_output[n].n
           IN  IF ReachesThreshold(u1, t1)
                  THEN Shows(Exits(UsageMsg(c1, Pct100(u1, t1)), ThresholdSeverity(u1, t1)))
               ELSE IF ReachesThreshold(u2, t2)
                  THEN Shows(Exits(UsageMsg(c2, Pct100(u2, t2)), ThresholdSeverity(u2, t2)))
               ELSE Shows(Returns(NAGIOS_OK))

(***************************************************************************)
(* C14: Total: and Used: lines met while no container context is active    *)
(* (before the first header, or after a blank line and before the next     *)
(* header) never change the outcome of the token-info check: it is the     *)
(* outcome for the capture without those lines; in particular a capture    *)
(* without any header line passes, whatever its Total and Used values.     *)
(***************************************************************************)
RECURSIVE InContext(_, _, _)
\* The capture from line j on without the Total/Used lines that stand outside
\* a container context; active: a header was seen and no blank line since.
InContext(lines, j, active) ==
    IF j > Len(lines) THEN <<>>
    ELSE LET line == lines[j] IN
        IF line.kind = "header" THEN <<line>> \o InContext(lines, j + 1, TRUE)
        ELSE IF line.kind = "blank" THEN <<line>> \o InContext(lines, j + 1, FALSE)
        ELSE IF line.kind \in {"Total", "Used"} /\ ~active
            THEN InContext(lines, j + 1, active)
        ELSE <<line>> \o InContext(lines, j + 1, active)

NoHeader(lines) == \A j \in 1..Len(lines) : lines[j].kind # "header"

C14_ContextOnly ==
    (pc # "check")
        => /\ Shows(verify_check(TOKEN_INFO, InContext(hsm_output, 1, FALSE), ""))
           /\ NoHeader(hsm_output) => pc \in {"loop", "returned"}

\* "Used: 95" before the first header and again after a blank line, no Total
\* anywhere: the command passed.
C14_Witness ==
    /\ pc \in {"loop", "returned"}
    /\ i = 2 /\ 1 \in classified
    /\ hsm_output = <<Line("Used", "", 95), Line("header", "User", 0),
                      Line("blank", "", 0), Line("Used", "", 95)>>
    /\ printed = <<>> /\ fault = ""

(***************************************************************************)
(* C20 (stated as claimed): a Total read in one container's section is     *)
(* never combined with the Used of another section: for a capture          *)
(* header c1, Total: t, header c2, Used: u (no blank line, no Total in     *)
(* c2's section) no usage verdict for c2 is computed from u and t.         *)
(***************************************************************************)
C20_NoStaleTotal ==
    \A c1 \in {"User", "SO"}, c2 \in {"User", "SO"}, t \in Totals \ {0}, u \in Useds :
        (/\ c1 # c2
         /\ pc # "check"
         /\ hsm_output = <<Line("header", c1, 0), Line("Total", "", t),
                           Line("header", c2, 0), Line("Used", "", u)>>)
            => ~(pc = "exited" /\ printed = <<UsageMsg(c2, Pct100(u, t))>>)

(***************************************************************************)
(* C15: in every reachable state at most one child process started by      *)
(* verify() is running; the k-th process started runs the command at       *)
(* position k of the list, and once the process for position k+1 exists,   *)
(* the process for position k has ended, its output has been classified    *)
(* and the loop has moved past it (it was classified OK).                  *)
(***************************************************************************)
Running == {k \in 1..Len(procs) : procs[k].status = "running"}

C15_Sequential ==
    /\ Cardinality(Running) <= 1
    /\ \A k \in 1..Len(procs) :
          /\ k <= Len(diag_list) /\ procs[k].cmd.c = diag_list[k]
          /\ k < Len(procs) =>
                (procs[k].status = "exited" /\ k \in classified /\ k < i)

\* The second command's process is running after the first one's has ended
\* and been classified.
C15_Witness ==
    /\ Len(procs) = 2 /\ procs[2].status = "running"
    /\ procs[1].status = "exited" /\ 1 \in classified /\ i = 2

(***************************************************************************)
(* C16: when a command of the catalog times out and os.kill fails with     *)
(* OSError because the process p refers to has already ended, nothing is   *)
(* raised: the run ends with exit code CRITICAL and the message            *)
(* "<label> exceeded time limit" of that command.                          *)
(***************************************************************************)
C16_KillFailureSwallowed ==
    (/\ i \in timed_out
     /\ diag_list[i] \in DOMAIN luna_info
     /\ p # 0 /\ procs[p].status = "exited")
        => /\ pc = "exited" /\ fault = ""
           /\ exit_code = NAGIOS_CRITICAL
           /\ printed = <<ExceededMsg(luna_info[diag_list[i]].label)>>

\* The alarm fired after communicate() had reaped the current command's
\* process and before signal.alarm(0).
C16_Witness ==
    /\ i \in timed_out /\ p = i /\ p = Len(procs)
    /\ procs[p].status = "exited"
    /\ hsm_output # <<>>
    /\ pc = "exited" /\ exit_code = NAGIOS_CRITICAL

(***************************************************************************)
(* C18 (stated as claimed): the alarm is pending only while control is     *)
(* inside the try statement whose except clause handles Alarm; no alarm    *)
(* is pending once verify() was left by return, exit or a propagating      *)
(* exception, nor while the checks after the try statement run, and Alarm  *)
(* is never raised outside verify().                                       *)
(***************************************************************************)
C18_TimerContained ==
    /\ alarm => pc \in {"armed", "forked", "spawned", "communicated"}
    /\ fault # "Alarm"

(***************************************************************************)
(* C19 (stated as claimed): whenever a timeout is handled for the command  *)
(* at position i, p refers to the process started for that command: p is   *)
(* bound, it is the last process started and it runs diag_list[i].         *)
(***************************************************************************)
C19_KillTarget ==
    \A k \in timed_out :
        /\ p # 0
        /\ p = Len(procs) /\ Len(procs) = k
        /\ procs[p].cmd.c = diag_list[k]

(***************************************************************************)
(* Construction on its own: a library caller (such as the unit test, whose *)
(* setUp runs before every test) builds one CheckHsm object after another  *)
(* in the same process.                                                    *)
(***************************************************************************)
\* largest number of objects constructed in one process
MaxObjects == 3

InitCtor == Init /\ mode = "lib"

\* obj = CheckHsm(...), one more object.
Construct ==
    /\ pc = "loaded" /\ Len(objects) < MaxObjects
    /\ \E a \in CtorArgs : ctor(a.diag_tool, a.given, a.diag_list, a.slot)
    /\ UNCHANGED <<retcode, mode, opts, pc, i, p, procs, alarm, hsm_output, hsm_error,
                   printed, exit_code, fault, retval, classified, timed_out>>

NextCtor == Construct

SpecCtor == InitCtor /\ [][NextCtor]_vars

\* self.diag_list of the k-th object constructed, as it reads now.
ListOf(k) == IF objects[k].shared THEN default_diag_list ELSE objects[k].own

(***************************************************************************)
(* C17: whatever number of objects were constructed before it, an object   *)
(* constructed without a diag_list, or with an empty one, has a diag_list  *)
(* that holds every command number of luna_info exactly once; this stays   *)
(* so while further objects are constructed.                               *)
(***************************************************************************)
EveryIdOnce(list) ==
    /\ {list[j] : j \in 1..Len(list)} = DOMAIN luna_info
    /\ Len(list) = Cardinality(DOMAIN luna_info)

C17_DefaultSet ==
    /\ \A k \in 1..Len(objects) : objects[k].asked_all => EveryIdOnce(ListOf(k))
    /\ (objects # <<>> /\ objects[Len(objects)].asked_all) => EveryIdOnce(diag_list)

\* Three objects: no list passed, an empty list passed, no list passed again.
C17_Witness ==
    /\ Len(objects) = 3
    /\ objects[1].shared /\ objects[3].shared
    /\ ~objects[2].shared /\ objects[2].asked_all
    /\ diag_list = luna_info_keys

=============================================================================
